---- MODULE Spec2Model ----
\* A model of the weather dashboard of src/script.js: the location cascade
\* (geolocation, IP lookup, manual search), the Weather Fetcher with its
\* reverse geocoding, the debounced suggestion service, the unit preferences
\* and the render functions that write the page.
EXTENDS Integers, Sequences, FiniteSets, TLC

\* ------------------------------------------------------------------
\* Bounds of the model
\* ------------------------------------------------------------------
\* Number of user events (typing, clicks, key presses) in one run.
MaxUserActions == 2
\* Whole Celsius degrees drawn for a held snapshot (SpecRender):
\* -MaxBelowZero .. MaxAboveZero.
MaxBelowZero == 30
MaxAboveZero == 45
\* weather codes are drawn from -1..MaxCode
MaxCode == 100

\* ------------------------------------------------------------------
\* Program constants
\* ------------------------------------------------------------------
\* debounce(handleCityInput, 300)
DebounceDelay == 300
\* query.length < 3
MinQueryLength == 3
\* Math.min(24, hourly.time.length)
HourlyLimit == 24
\* count=5 of the suggestion query
SuggestCount == 5
\* count=1 of the query of handleSearch
SearchCount == 1
\* granularity of the clock the debounce timer is observed with (ms)
TickMs == 150

\* ------------------------------------------------------------------
\* Values
\* ------------------------------------------------------------------
\* Texts are sequences of characters. A value that is undefined or null in
\* JavaScript is the one-element text Absent.
Absent == <<"#absent">>
\* The text an element has in the page's static markup.
MarkupText == <<"#markup">>
UnknownLocation == <<"Unknown Location">>
\* JavaScript truthiness of an optional text: null, undefined and "" are falsy.
Falsy(t) == t = Absent \/ t = <<>>

\* The content of a container as the page's static markup has it.
Initial == [kind |-> "initial"]
\* innerHTML = ""
Empty == [kind |-> "empty"]
LocationNoticeIP == [kind |-> "notice", text |-> "Unable to retrieve location. Please check your network or use the search bar."]
LocationNoticeGeo == [kind |-> "notice", text |-> "Unable to retrieve location. You can use the search bar to find a city."]
WeatherNotice == [kind |-> "notice", text |-> "Failed to load weather data"]

\* let currentWeatherData = null
Null == [kind |-> "null"]

\* String.prototype.trim on a text
RECURSIVE TrimLeft(_)
TrimLeft(s) == IF s # <<>> /\ Head(s) = " " THEN TrimLeft(Tail(s)) ELSE s
RECURSIVE TrimRight(_)
TrimRight(s) ==
    IF s # <<>> /\ s[Len(s)] = " " THEN TrimRight(SubSeq(s, 1, Len(s) - 1)) ELSE s
Trim(s) == TrimRight(TrimLeft(s))

\* `${name}, ${country}`
FormatName(name, country) == name \o <<",", " ">> \o country

\* ------------------------------------------------------------------
\* Unit Converter. Temperatures are held in tenths of a degree, wind in
\* tenths of km/h and precipitation in tenths of mm, as the forecast API
\* reports one decimal.
\* ------------------------------------------------------------------
\* A converter that multiplies by 5/9 instead of 9/5
toFahrenheit_Inverted(c) == (c * 50) \div 9 + 3200

\* toFahrenheit(c) = c * 9 / 5 + 32: tenths of Celsius to hundredths of Fahrenheit
toFahrenheit(c) == c * 18 + 3200
\* toMph(kmh) = kmh * 0.621371: tenths of km/h to 10^-7 mph
toMph(kmh) == kmh * 621371
\* toInches(mm) = mm * 0.0393701: tenths of mm to 10^-8 inches
toInches(mm) == mm * 393701

\* Math.round (ties towards +infinity) of a value held in 1/scale units
MathRound(x, scale) == (2 * x + scale) \div (2 * scale)
\* Number.prototype.toFixed(1): the value in tenths, of a value in 1/scale units
ToFixed1(x, scale) == (20 * x + scale) \div (2 * scale)

\* ------------------------------------------------------------------
\* getWeatherIconClass
\* ------------------------------------------------------------------
\* A classifier by ranges of codes instead of the listed codes
getWeatherIconClass_Ranges(code) ==
    IF code = 0 THEN "sunny"
    ELSE IF code \in 1..2 THEN "partCloud"
    ELSE IF code = 3 THEN "cloudy"
    ELSE IF code \in 45..48 THEN "foggy"
    ELSE IF code \in 51..57 THEN "rainy"
    ELSE IF code \in 61..67 \/ code \in 80..82 THEN "stormy"
    ELSE IF code \in 71..77 \/ code \in 85..86 THEN "snowy"
    ELSE IF code \in 95..99 THEN "windy"
    ELSE "partCloud"

getWeatherIconClass(code) ==
    IF code \in {0} THEN "sunny"
    ELSE IF code \in {1, 2} THEN "partCloud"
    ELSE IF code \in {3} THEN "cloudy"
    ELSE IF code \in {45, 48} THEN "foggy"
    ELSE IF code \in {51, 53, 55, 56, 57} THEN "rainy"
    ELSE IF code \in {61, 63, 65, 66, 67, 80, 81, 82} THEN "stormy"
    ELSE IF code \in {71, 73, 75, 77, 85, 86} THEN "snowy"
    ELSE IF code \in {95, 96, 99} THEN "windy"
    ELSE "partCloud"

\* ------------------------------------------------------------------
\* Forecast payloads (the body of a forecast response). kind says which
\* parts the body has: "full", or a body that lacks `current`, `daily`
\* or `hourly`.
\* ------------------------------------------------------------------
PayloadKinds == {"full", "noCurrent", "noDaily", "noHourly"}
\* the kinds of body the forecast API is taken to answer with
ServedKinds == {"full", "noHourly"}
WeatherCodes == <<0, 63, 100, 3, 45, 51, 71, 95, 2>>

\* A payload for the place `place`, whose current temperature is `base`
\* tenths of a degree and whose hourly series has `hours` entries.
MkPayload(kind, place, base, hours) ==
    [kind |-> kind,
     place |-> place,
     current |-> [time |-> <<place, "now">>,
                  temperature_2m |-> base,
                  apparent_temperature |-> base - 30,
                  relative_humidity_2m |-> 50,
                  wind_speed_10m |-> 123,
                  precipitation |-> 4,
                  weather_code |-> 63],
     daily |-> [time |-> <<"day1", "day2">>,
                temperature_2m_max |-> <<base + 50, base + 20>>,
                temperature_2m_min |-> <<base - 50, base - 80>>,
                weather_code |-> <<0, 100>>],
     hourly |-> [time |-> [i \in 1..hours |-> i],
                 temperature_2m |-> [i \in 1..hours |-> base - 10 * (i % 4)],
                 weather_code |-> [i \in 1..hours |-> WeatherCodes[(i % 9) + 1]]]]

\* ------------------------------------------------------------------
\* State
\* ------------------------------------------------------------------
VARIABLES
    UNITS,                    \* let UNITS = {TEMPERATURE, WIND, PRECIPITATION}
    currentWeatherData,       \* the held snapshot, or Null
    unitOptions,              \* unit group -> the values whose option is 'active'
    currentWeatherContainer,  \* .metricsCards
    currentUserLocation,      \* .location (textContent)
    dateElement,              \* .dateTime
    currentTemp,              \* .tempValue
    dailyForecastContainer,   \* .dailyForcast
    hourlyForecastContainer,  \* .hourlyCard
    searchInput,              \* .searchInput (value)
    suggestionsContainer,     \* .suggestionsContainer (its children)
    timers,                   \* pending timeouts of debounce: the ms each has left
    timeoutId,                \* debounce's timeoutId: the ms its timer has left, -1 if none pends
    loaded,                   \* the load event has run initializeApp
    geolocation,              \* navigator.geolocation and its pending callback
    tasks,                    \* async functions suspended on a request
    userActions,              \* number of user events so far
    ipRequests,               \* history: number of IP-lookup requests sent
    sinceInput,               \* history: ms since the last input event
    burstRequests,            \* history: suggestion requests since the last input event
    alerts,                   \* history: the alert() notices shown
    uncaught                  \* history: a handler ended with an uncaught exception

page == <<currentWeatherContainer, currentUserLocation, dateElement, currentTemp,
          dailyForecastContainer, hourlyForecastContainer>>
search == <<searchInput, suggestionsContainer, timers, timeoutId, sinceInput, burstRequests>>
vars == <<UNITS, currentWeatherData, unitOptions, page, search, loaded, geolocation,
          tasks, userActions, ipRequests, alerts, uncaught>>

\* The display elements as one record, for the render functions.
Page ==
    [currentWeatherContainer |-> currentWeatherContainer,
     currentUserLocation |-> currentUserLocation,
     dateElement |-> dateElement,
     currentTemp |-> currentTemp,
     dailyForecastContainer |-> dailyForecastContainer,
     hourlyForecastContainer |-> hourlyForecastContainer]

SetPage(p) ==
    /\ currentWeatherContainer' = p.currentWeatherContainer
    /\ currentUserLocation' = p.currentUserLocation
    /\ dateElement' = p.dateElement
    /\ currentTemp' = p.currentTemp
    /\ dailyForecastContainer' = p.dailyForecastContainer
    /\ hourlyForecastContainer' = p.hourlyForecastContainer

\* ------------------------------------------------------------------
\* Rendering functions. Each returns the page it leaves and whether it
\* threw (a TypeError on a part the payload lacks).
\* ------------------------------------------------------------------
\* element.textContent = city: null and undefined give the empty text
TextContent(city) == IF city = Absent THEN <<>> ELSE city

\* Math.round(convertTemp(t)) of renderDailyForecast / renderHourlyForecast
convertTemp(units, t) ==
    IF units.TEMPERATURE = "fahrenheit"
    THEN MathRound(toFahrenheit(t), 100)
    ELSE MathRound(t, 10)

renderCurrentWeather(p, data, city, units) ==
    LET cleared == [p EXCEPT !.currentWeatherContainer = Empty]
        current == data.current
        currentTempVal == IF units.TEMPERATURE = "fahrenheit"
                          THEN MathRound(toFahrenheit(current.temperature_2m), 100)
                          ELSE MathRound(current.temperature_2m, 10)
        apparentTempVal == IF units.TEMPERATURE = "fahrenheit"
                           THEN MathRound(toFahrenheit(current.apparent_temperature), 100)
                           ELSE MathRound(current.apparent_temperature, 10)
        windSpeedVal == IF units.WIND = "mph"
                        THEN ToFixed1(toMph(current.wind_speed_10m), 10000000)
                        ELSE ToFixed1(current.wind_speed_10m, 10)
        windUnit == IF units.WIND = "mph" THEN "mph" ELSE "km/h"
        precipitationVal == IF units.PRECIPITATION = "inches"
                            THEN ToFixed1(toInches(current.precipitation), 100000000)
                            ELSE ToFixed1(current.precipitation, 10)
        precUnit == IF units.PRECIPITATION = "inches" THEN "in" ELSE "mm"
    IN  IF data.kind = "noCurrent"
        THEN [page |-> cleared, threw |-> TRUE]
        ELSE [page |-> [cleared EXCEPT
                  !.currentUserLocation = TextContent(city),
                  !.dateElement = current.time,
                  !.currentTemp = [kind |-> "temp", value |-> currentTempVal],
                  !.currentWeatherContainer =
                      [kind |-> "metrics",
                       place |-> data.place,
                       feelsLike |-> apparentTempVal,
                       humidity |-> current.relative_humidity_2m,
                       wind |-> windSpeedVal, windUnit |-> windUnit,
                       precipitation |-> precipitationVal, precUnit |-> precUnit]],
              threw |-> FALSE]

renderDailyForecast(p, data, units) ==
    LET daily == data.daily
        cleared == [p EXCEPT !.dailyForecastContainer = Empty]
    IN  IF data.kind = "noDaily"
        THEN [page |-> cleared, threw |-> TRUE]
        ELSE [page |-> [cleared EXCEPT !.dailyForecastContainer =
                  [kind |-> "cards",
                   cards |-> [i \in 1..Len(daily.time) |->
                       [day |-> daily.time[i],
                        icon |-> getWeatherIconClass(daily.weather_code[i]),
                        min |-> convertTemp(units, daily.temperature_2m_min[i]),
                        max |-> convertTemp(units, daily.temperature_2m_max[i])]]]],
              threw |-> FALSE]

\* Math.min(24, hourly.time.length)
HourlyCount(hourly) == IF Len(hourly.time) < HourlyLimit THEN Len(hourly.time) ELSE HourlyLimit

renderHourlyForecast(p, data, units) ==
    LET hourly == data.hourly
        cleared == [p EXCEPT !.hourlyForecastContainer = Empty]
    IN  IF data.kind = "noHourly"
        THEN [page |-> cleared, threw |-> TRUE]
        ELSE [page |-> [cleared EXCEPT !.hourlyForecastContainer =
                  [kind |-> "cards",
                   cards |-> [i \in 1..HourlyCount(hourly) |->
                       [hour |-> hourly.time[i],
                        icon |-> getWeatherIconClass(hourly.weather_code[i]),
                        temp |-> convertTemp(units, hourly.temperature_2m[i])]]]],
              threw |-> FALSE]

\* renderWeather(current, data, city): the three render functions in turn;
\* an exception in one skips the rest.
renderWeather(p, data, city, units) ==
    LET r1 == renderCurrentWeather(p, data, city, units)
        r2 == renderDailyForecast(r1.page, data, units)
        r3 == renderHourlyForecast(r2.page, data, units)
    IN  IF r1.threw THEN r1 ELSE IF r2.threw THEN r2 ELSE r3

\* ------------------------------------------------------------------
\* The outside world: what the four HTTP APIs and the user can supply
\* ------------------------------------------------------------------
\* A response is a rejected fetch, or a status (ok or not) with a body; a
\* body is Unparsable (res.json() rejects) or the parsed JSON value.
Reject == [net |-> "reject"]
Unparsable == [json |-> "unparsable"]
\* a JSON object with none of the fields the caller reads, e.g. {error: true}
ErrorBody == [json |-> "error"]
Resp(ok, body) == [net |-> "response", ok |-> ok, body |-> body]
FailedResponses == {Reject, Resp(FALSE, ErrorBody), Resp(TRUE, Unparsable)}

\* latitude / longitude read from a body that has none
Undefined == "undefined"

\* Current temperature (tenths of a degree Celsius) the forecast API reports per place
TempOf(place) ==
    CASE place = "geo" -> 200
      [] place = "ip" -> -75
      [] place = "c1" -> 315
      [] place = "c2" -> 5
      [] OTHER -> 0

\* the forecast API has no data for latitude=undefined
ForecastResponses(place) ==
    IF place = Undefined
    THEN FailedResponses
    ELSE FailedResponses \cup {Resp(TRUE, MkPayload(k, place, TempOf(place), 2)) : k \in ServedKinds}

IPBody(latitude, longitude, city) ==
    [json |-> "ip", latitude |-> latitude, longitude |-> longitude, city |-> city]
IPResponses ==
    FailedResponses \cup
    {Resp(TRUE, IPBody("ip", "ip", <<"I">>)), Resp(TRUE, IPBody("ip", "ip", Absent))}

GeoBody(city, locality, countryName) ==
    [json |-> "geo", city |-> city, locality |-> locality, countryName |-> countryName]
GeocodingResponses ==
    FailedResponses \cup
    {Resp(TRUE, GeoBody(<<"G">>, Absent, <<"L">>)), Resp(TRUE, GeoBody(Absent, <<"S">>, Absent))}

Candidate(name, country, place) ==
    [name |-> name, country |-> country, latitude |-> place, longitude |-> place]
CityP == Candidate(<<"P">>, <<"F">>, "c1")
CityQ == Candidate(<<"Q">>, <<"G">>, "c2")
SearchBody(results) == [json |-> "search", results |-> results]
SearchResponses ==
    FailedResponses \cup
    {Resp(TRUE, SearchBody(r)) : r \in {<<>>, <<CityP>>, <<CityQ, CityP>>}}

\* What the user leaves in the search field by typing
TypedTexts == {<<" ">>, <<" ", "a", "b">>, <<"a", "b", "c">>}

UnitTypes == {"temp", "wind", "prec"}
UnitValues == {"celsius", "fahrenheit", "kmh", "mph", "mm", "inches"}
\* the .unitOption elements of the page: (data-unit-type, data-unit-value)
UnitOptionElements ==
    {<<"temp", "celsius">>, <<"temp", "fahrenheit">>, <<"wind", "kmh">>, <<"wind", "mph">>,
     <<"prec", "mm">>, <<"prec", "inches">>}

\* ------------------------------------------------------------------
\* Helpers on the state
\* ------------------------------------------------------------------
\* the tasks of one async function
Awaiting(kind) == {t \in tasks : t.kind = kind}
\* a number no suspended task bears
FreeId == CHOOSE n \in 1..(Cardinality(tasks) + 1) : \A t \in tasks : t.id # n
Replace(t, u) == tasks' = (tasks \ {t}) \cup {u}
Finish(t) == tasks' = tasks \ {t}
UserAction == /\ loaded
              /\ userActions < MaxUserActions
              /\ userActions' = userActions + 1

\* The task record of a fetchWeather(latitude, longitude, cityName) that
\* awaits the forecast response. origin (history): who called it.
WeatherTask(id, latitude, longitude, cityName, origin) ==
    [id |-> id, kind |-> "weather", pc |-> "forecast", latitude |-> latitude,
     longitude |-> longitude, cityName |-> cityName, origin |-> origin, data |-> Null]

\* ------------------------------------------------------------------
\* Initial state: the script has run, the load event has not fired yet
\* ------------------------------------------------------------------
DefaultUnits == [TEMPERATURE |-> "celsius", WIND |-> "kmh", PRECIPITATION |-> "mm"]

Init ==
    /\ UNITS = DefaultUnits
    /\ currentWeatherData = Null
    /\ unitOptions = [temp |-> {"celsius"}, wind |-> {"kmh"}, prec |-> {"mm"}]
    /\ currentWeatherContainer = Initial
    /\ currentUserLocation = MarkupText
    /\ dateElement = MarkupText
    /\ currentTemp = Initial
    /\ dailyForecastContainer = Initial
    /\ hourlyForecastContainer = Initial
    /\ searchInput = <<>>
    /\ suggestionsContainer = <<>>
    /\ timers = {}
    /\ timeoutId = -1
    /\ loaded = FALSE
    /\ geolocation \in {"supported", "unsupported"}
    /\ tasks = {}
    /\ userActions = 0
    /\ ipRequests = 0
    /\ sinceInput = DebounceDelay
    /\ burstRequests = 0
    /\ alerts = {}
    /\ uncaught = FALSE

\* ------------------------------------------------------------------
\* Location Resolver
\* ------------------------------------------------------------------
\* getLocationFromIP() up to its first await: the IP-lookup request is sent
getLocationFromIP ==
    /\ tasks' = tasks \cup {[id |-> FreeId, kind |-> "ip"]}
    /\ ipRequests' = ipRequests + 1

\* fetchWeather(latitude, longitude, cityName) up to its first await, as a new task
fetchWeather(latitude, longitude, cityName, origin) ==
    /\ tasks' = tasks \cup {WeatherTask(FreeId, latitude, longitude, cityName, origin)}

\* getUserLocation(), called by initializeApp on the load event
getUserLocation ==
    IF geolocation = "supported"
    THEN /\ geolocation' = "pending"
         /\ UNCHANGED <<tasks, ipRequests>>
    ELSE /\ getLocationFromIP
         /\ UNCHANGED geolocation

\* window load -> initializeApp(): getUserLocation() and the listeners
initializeApp ==
    /\ ~loaded
    /\ loaded' = TRUE
    /\ getUserLocation
    /\ UNCHANGED <<UNITS, currentWeatherData, unitOptions, page, search, userActions,
                    alerts, uncaught>>

\* getCurrentPosition calls its success callback: handleLocationSuccess(position)
handleLocationSuccess ==
    /\ geolocation = "pending"
    /\ geolocation' = "succeeded"
    /\ fetchWeather("geo", "geo", Absent, "geolocation")
    /\ UNCHANGED <<ipRequests, UNITS, currentWeatherData, unitOptions, page, search, loaded,
                    userActions, alerts, uncaught>>

\* A resolver that reports the geolocation failure (handleLocationError) and stops
GeolocationError_NoFallback ==
    /\ geolocation = "pending"
    /\ geolocation' = "failed"
    /\ currentWeatherContainer' = LocationNoticeGeo
    /\ UNCHANGED <<UNITS, currentWeatherData, unitOptions, currentUserLocation, dateElement,
                    currentTemp, dailyForecastContainer, hourlyForecastContainer, search,
                    loaded, tasks, userActions, ipRequests, alerts, uncaught>>

\* An error callback that reports the failure as handleLocationError does
\* and then falls back to the IP lookup
GeolocationError_Notice ==
    /\ geolocation = "pending"
    /\ geolocation' = "failed"
    /\ getLocationFromIP
    /\ currentWeatherContainer' = LocationNoticeGeo
    /\ UNCHANGED <<UNITS, currentWeatherData, unitOptions, currentUserLocation, dateElement,
                    currentTemp, dailyForecastContainer, hourlyForecastContainer, search,
                    loaded, userActions, alerts, uncaught>>

\* getCurrentPosition calls its error callback (the arrow function of getUserLocation)
GeolocationError ==
    /\ geolocation = "pending"
    /\ geolocation' = "failed"
    /\ getLocationFromIP
    /\ UNCHANGED <<UNITS, currentWeatherData, unitOptions, page, search, loaded,
                    userActions, alerts, uncaught>>

\* A getLocationFromIP whose catch only logs the error
IPResponse_Silent(t, r) ==
    /\ t.kind = "ip"
    /\ IF r = Reject \/ r.body = Unparsable
       THEN /\ Finish(t)
            /\ UNCHANGED currentWeatherContainer
       ELSE LET b == r.body
                latitude == IF b = ErrorBody THEN Undefined ELSE b.latitude
                longitude == IF b = ErrorBody THEN Undefined ELSE b.longitude
                city == IF b = ErrorBody THEN Absent ELSE b.city
            IN  /\ Replace(t, WeatherTask(t.id, latitude, longitude, city, "ip"))
                /\ UNCHANGED currentWeatherContainer
    /\ UNCHANGED <<ipRequests, UNITS, currentWeatherData, unitOptions, currentUserLocation, dateElement,
                    currentTemp, dailyForecastContainer, hourlyForecastContainer, search,
                    loaded, geolocation, userActions, alerts, uncaught>>

\* getLocationFromIP() resumes with the response r of the IP lookup
IPResponse(t, r) ==
    /\ t.kind = "ip"
    /\ IF r = Reject \/ r.body = Unparsable
       THEN \* catch (err)
            /\ currentWeatherContainer' = LocationNoticeIP
            /\ Finish(t)
       ELSE \* const {latitude, longitude, city} = data; await fetchWeather(...)
            LET b == r.body
                latitude == IF b = ErrorBody THEN Undefined ELSE b.latitude
                longitude == IF b = ErrorBody THEN Undefined ELSE b.longitude
                city == IF b = ErrorBody THEN Absent ELSE b.city
            IN  /\ Replace(t, WeatherTask(t.id, latitude, longitude, city, "ip"))
                /\ UNCHANGED currentWeatherContainer
    /\ UNCHANGED <<ipRequests, UNITS, currentWeatherData, unitOptions, currentUserLocation, dateElement,
                    currentTemp, dailyForecastContainer, hourlyForecastContainer, search,
                    loaded, geolocation, userActions, alerts, uncaught>>

\* ------------------------------------------------------------------
\* Weather Fetcher
\* ------------------------------------------------------------------
\* renderWeather(data.current, data, finalCity) inside fetchWeather's try:
\* an exception is caught and the failure notice replaces .metricsCards
RenderFetched(data, finalCity) ==
    LET r == renderWeather(Page, data, finalCity, UNITS)
    IN  SetPage(IF r.threw
                THEN [r.page EXCEPT !.currentWeatherContainer = WeatherNotice]
                ELSE r.page)

\* A fetcher that asks for the name whether or not it was given one
NoFinalCity_Always(cityName) == TRUE

\* let finalCity = cityName; if (!finalCity)
NoFinalCity(cityName) == Falsy(cityName)

\* fetchWeather resumes with the response r of the forecast request
ForecastResponse(t, r) ==
    /\ t.kind = "weather" /\ t.pc = "forecast"
    /\ IF r = Reject \/ ~r.ok \/ r.body = Unparsable
       THEN \* catch (error)
            /\ currentWeatherContainer' = WeatherNotice
            /\ Finish(t)
            /\ UNCHANGED <<currentWeatherData, currentUserLocation, dateElement, currentTemp,
                            dailyForecastContainer, hourlyForecastContainer>>
       ELSE /\ currentWeatherData' = r.body
            /\ IF NoFinalCity(t.cityName)
               THEN \* finalCity = await reverseGeocode(latitude, longitude)
                    /\ Replace(t, [t EXCEPT !.pc = "geocoding", !.data = r.body])
                    /\ UNCHANGED page
               ELSE /\ RenderFetched(r.body, t.cityName)
                    /\ Finish(t)
    /\ UNCHANGED <<ipRequests, UNITS, unitOptions, search, loaded, geolocation, userActions,
                    alerts, uncaught>>

\* A reverseGeocode without the sentinel: its catch returns nothing, and a
\* body without city and locality gives no name
reverseGeocode_NoSentinel(r) ==
    IF r = Reject \/ r.body = Unparsable \/ r.body = ErrorBody
    THEN Absent
    ELSE LET first == IF ~Falsy(r.body.city) THEN r.body.city ELSE r.body.locality
             country == IF ~Falsy(r.body.countryName) THEN r.body.countryName ELSE <<>>
             trimmed == Trim(FormatName(first, country))
         IN  IF trimmed # <<>> /\ trimmed[Len(trimmed)] = ","
             THEN SubSeq(trimmed, 1, Len(trimmed) - 1)
             ELSE trimmed

\* A reverseGeocode that trims the name but leaves a trailing comma in place
reverseGeocode_KeepComma(r) ==
    IF r = Reject \/ r.body = Unparsable
    THEN UnknownLocation
    ELSE LET b == r.body
             city == IF b = ErrorBody THEN Absent ELSE b.city
             locality == IF b = ErrorBody THEN Absent ELSE b.locality
             countryName == IF b = ErrorBody THEN Absent ELSE b.countryName
             first == IF ~Falsy(city) THEN city
                      ELSE IF ~Falsy(locality) THEN locality ELSE UnknownLocation
             country == IF ~Falsy(countryName) THEN countryName ELSE <<>>
         IN  Trim(FormatName(first, country))

\* reverseGeocode's result for the response r
reverseGeocode(r) ==
    IF r = Reject \/ r.body = Unparsable
    THEN UnknownLocation
    ELSE LET b == r.body
             city == IF b = ErrorBody THEN Absent ELSE b.city
             locality == IF b = ErrorBody THEN Absent ELSE b.locality
             countryName == IF b = ErrorBody THEN Absent ELSE b.countryName
             first == IF ~Falsy(city) THEN city
                      ELSE IF ~Falsy(locality) THEN locality ELSE UnknownLocation
             country == IF ~Falsy(countryName) THEN countryName ELSE <<>>
             trimmed == Trim(FormatName(first, country))
         IN  \* .replace(/,$/, '')
             IF trimmed # <<>> /\ trimmed[Len(trimmed)] = ","
             THEN SubSeq(trimmed, 1, Len(trimmed) - 1)
             ELSE trimmed

\* fetchWeather resumes with reverseGeocode's result and renders
GeocodingResponse(t, r) ==
    /\ t.kind = "weather" /\ t.pc = "geocoding"
    /\ RenderFetched(t.data, reverseGeocode(r))
    /\ Finish(t)
    /\ UNCHANGED <<ipRequests, UNITS, currentWeatherData, unitOptions, search, loaded, geolocation,
                    userActions, alerts, uncaught>>

\* ------------------------------------------------------------------
\* Search / Suggestion Service
\* ------------------------------------------------------------------
\* A debounce that never clears the timeout it set before
debounce_NoClear ==
    /\ timers' = timers \cup {DebounceDelay}
    /\ timeoutId' = DebounceDelay

\* The wrapper debounce(handleCityInput, 300) returns, run on an input event:
\* clearTimeout(timeoutId); timeoutId = setTimeout(..., delay)
debounce ==
    /\ timers' = (timers \ {timeoutId}) \cup {DebounceDelay}
    /\ timeoutId' = DebounceDelay

\* input event on the search field: the user has edited it to `text`
Input(text) ==
    /\ UserAction
    /\ text # searchInput
    /\ searchInput' = text
    /\ debounce
    /\ sinceInput' = 0
    /\ burstRequests' = 0
    /\ UNCHANGED <<UNITS, currentWeatherData, unitOptions, page, suggestionsContainer,
                    loaded, geolocation, tasks, ipRequests, alerts, uncaught>>

Elapse(ms) == IF ms > TickMs THEN ms - TickMs ELSE 0

\* TickMs of time pass while a timeout is pending
Tick ==
    /\ \E ms \in timers : ms > 0
    /\ timers' = {Elapse(ms) : ms \in timers}
    /\ timeoutId' = IF timeoutId > 0 THEN Elapse(timeoutId) ELSE timeoutId
    /\ sinceInput' = IF sinceInput + TickMs < DebounceDelay
                      THEN sinceInput + TickMs ELSE DebounceDelay
    /\ UNCHANGED <<UNITS, currentWeatherData, unitOptions, page, searchInput,
                    suggestionsContainer, burstRequests, loaded, geolocation, tasks,
                    userActions, ipRequests, alerts, uncaught>>

\* A handleCityInput that returns on a short query and leaves the list shown
handleCityInput_KeepList ==
    LET query == Trim(searchInput)
    IN  IF Len(query) < MinQueryLength
        THEN UNCHANGED <<suggestionsContainer, tasks, burstRequests>>
        ELSE /\ tasks' = tasks \cup {[id |-> FreeId, kind |-> "suggest", query |-> query,
                                        count |-> SuggestCount]}
             /\ burstRequests' = burstRequests + 1
             /\ UNCHANGED suggestionsContainer

\* handleCityInput() up to its first await
handleCityInput ==
    LET query == Trim(searchInput)
    IN  IF Len(query) < MinQueryLength
        THEN /\ suggestionsContainer' = <<>>
             /\ UNCHANGED <<tasks, burstRequests>>
        ELSE \* await fetchSuggestions(query)
             /\ tasks' = tasks \cup {[id |-> FreeId, kind |-> "suggest", query |-> query,
                                        count |-> SuggestCount]}
             /\ burstRequests' = burstRequests + 1
             /\ UNCHANGED suggestionsContainer

\* a timeout set by debounce expires and calls handleCityInput
TimerFire ==
    /\ 0 \in timers
    /\ timers' = timers \ {0}
    /\ timeoutId' = IF timeoutId = 0 THEN -1 ELSE timeoutId
    /\ handleCityInput
    /\ UNCHANGED <<ipRequests, UNITS, currentWeatherData, unitOptions, page, searchInput, sinceInput,
                    loaded, geolocation, userActions, alerts, uncaught>>

\* renderSuggestions(results): one child per result
renderSuggestions(results) ==
    [i \in 1..Len(results) |->
        [textContent |-> FormatName(results[i].name, results[i].country),
         lat |-> results[i].latitude,
         lon |-> results[i].longitude,
         city |-> FormatName(results[i].name, results[i].country)]]

\* A fetchSuggestions that drops a response whose query is no longer the
\* trimmed text of the field
SuggestResponse_IfCurrent(t, r) ==
    /\ t.kind = "suggest"
    /\ suggestionsContainer' =
          IF t.query # Trim(searchInput) THEN suggestionsContainer
          ELSE IF r = Reject \/ r.body = Unparsable THEN <<>>
          ELSE IF r.body = ErrorBody THEN <<>>
          ELSE renderSuggestions(r.body.results)
    /\ Finish(t)
    /\ UNCHANGED <<UNITS, currentWeatherData, unitOptions, page, searchInput, timers,
                    timeoutId, sinceInput, burstRequests, loaded, geolocation,
                    userActions, ipRequests, alerts, uncaught>>

\* fetchSuggestions(query) resumes with the response r of the search API
SuggestResponse(t, r) ==
    /\ t.kind = "suggest"
    /\ suggestionsContainer' =
          IF r = Reject \/ r.body = Unparsable THEN <<>>
          ELSE IF r.body = ErrorBody THEN <<>>
          ELSE renderSuggestions(r.body.results)
    /\ Finish(t)
    /\ UNCHANGED <<UNITS, currentWeatherData, unitOptions, page, searchInput, timers,
                    timeoutId, sinceInput, burstRequests, loaded, geolocation,
                    userActions, ipRequests, alerts, uncaught>>

\* A selectSuggestion that passes the coordinates on without the name
selectSuggestion_NoName(i) ==
    LET item == suggestionsContainer[i]
    IN  /\ searchInput' = item.city
        /\ suggestionsContainer' = <<>>
        /\ fetchWeather(item.lat, item.lon, Absent, "select")

\* selectSuggestion(e) for the i-th child of the suggestions container
selectSuggestion(i) ==
    LET item == suggestionsContainer[i]
    IN  /\ searchInput' = item.city
        /\ suggestionsContainer' = <<>>
        /\ fetchWeather(item.lat, item.lon, item.city, "select")

\* click on the i-th suggestion
ClickSuggestion(i) ==
    /\ UserAction
    /\ i \in 1..Len(suggestionsContainer)
    /\ selectSuggestion(i)
    /\ UNCHANGED <<ipRequests, UNITS, currentWeatherData, unitOptions, page, timers, timeoutId,
                    sinceInput, burstRequests, loaded, geolocation, alerts, uncaught>>

\* A handleSearch that queries for the field's text as it stands
handleSearch_Untrimmed ==
    IF searchInput = <<>>
    THEN UNCHANGED tasks
    ELSE tasks' = tasks \cup {[id |-> FreeId, kind |-> "search", query |-> searchInput,
                               count |-> SearchCount]}

\* handleSearch() up to its first await
handleSearch ==
    LET cityName == Trim(searchInput)
    IN  IF cityName = <<>>
        THEN UNCHANGED tasks
        ELSE tasks' = tasks \cup {[id |-> FreeId, kind |-> "search", query |-> cityName,
                                   count |-> SearchCount]}

\* click on the search button
ClickSearch ==
    /\ UserAction
    /\ handleSearch
    /\ UNCHANGED <<ipRequests, UNITS, currentWeatherData, unitOptions, page, search, loaded,
                    geolocation, alerts, uncaught>>

\* keypress of Enter in the search field
PressEnter ==
    /\ UserAction
    /\ IF Len(suggestionsContainer) > 0
       THEN selectSuggestion(1)
       ELSE handleSearch /\ UNCHANGED <<searchInput, suggestionsContainer>>
    /\ UNCHANGED <<ipRequests, UNITS, currentWeatherData, unitOptions, page, timers, timeoutId,
                    sinceInput, burstRequests, loaded, geolocation, alerts, uncaught>>

\* handleSearch() resumes with the response r of the search API
SearchResponse(t, r) ==
    /\ t.kind = "search"
    /\ IF r = Reject \/ r.body = Unparsable
       THEN \* catch (error)
            /\ alerts' = alerts \cup {"Failed to search for location"}
            /\ Finish(t)
            /\ UNCHANGED <<searchInput, suggestionsContainer>>
       ELSE IF r.body # ErrorBody /\ Len(r.body.results) > 0
       THEN LET firstResult == r.body.results[1]
                formattedCityName == FormatName(firstResult.name, firstResult.country)
            IN  /\ searchInput' = formattedCityName
                /\ suggestionsContainer' = <<>>
                /\ Replace(t, WeatherTask(t.id, firstResult.latitude, firstResult.longitude,
                                           formattedCityName, "search"))
                /\ UNCHANGED alerts
       ELSE /\ alerts' = alerts \cup {"not found"}
            /\ Finish(t)
            /\ UNCHANGED <<searchInput, suggestionsContainer>>
    /\ UNCHANGED <<ipRequests, UNITS, currentWeatherData, unitOptions, page, timers, timeoutId,
                    sinceInput, burstRequests, loaded, geolocation, userActions,
                    uncaught>>

\* click outside .searchContainer (and not on a unit control)
ClickOutside ==
    /\ UserAction
    /\ suggestionsContainer' = <<>>
    /\ UNCHANGED <<UNITS, currentWeatherData, unitOptions, page, searchInput, timers,
                    timeoutId, sinceInput, burstRequests, loaded, geolocation, tasks,
                    ipRequests, alerts, uncaught>>

\* ------------------------------------------------------------------
\* Unit preferences
\* ------------------------------------------------------------------
\* updateUnitDropdownUI(type, value) on the options' active marks
updateUnitDropdownUI(active, type, value) ==
    [g \in DOMAIN active |->
        IF g = type
        THEN {o[2] : o \in {e \in UnitOptionElements : e[1] = type /\ e[2] = value}}
        ELSE active[g]]

stateKey(type) ==
    CASE type = "temp" -> "TEMPERATURE"
      [] type = "wind" -> "WIND"
      [] type = "prec" -> "PRECIPITATION"

\* if (currentWeatherData) renderWeather(currentWeatherData.current,
\* currentWeatherData, currentUserLocation.textContent), under the units `units`;
\* an exception of a render function is caught by nobody
Rerender(units) ==
    IF currentWeatherData # Null
    THEN LET r == renderWeather(Page, currentWeatherData, currentUserLocation, units)
         IN  /\ SetPage(r.page)
             /\ uncaught' = (uncaught \/ r.threw)
    ELSE UNCHANGED <<page, uncaught>>

\* A setUnit that stores the preference and refetches the weather for it
setUnit_Refetch(type, value) ==
    /\ UNITS' = [UNITS EXCEPT ![stateKey(type)] = value]
    /\ unitOptions' = updateUnitDropdownUI(unitOptions, type, value)
    /\ IF currentWeatherData # Null
       THEN fetchWeather(currentWeatherData.place, currentWeatherData.place,
                         currentUserLocation, "unit")
       ELSE UNCHANGED tasks
    /\ UNCHANGED <<page, uncaught>>

\* A setUnit that returns early when there is nothing to render
setUnit_NeedsSnapshot(type, value) ==
    IF currentWeatherData = Null
    THEN UNCHANGED <<UNITS, unitOptions, page, uncaught, tasks>>
    ELSE /\ UNITS' = [UNITS EXCEPT ![stateKey(type)] = value]
         /\ unitOptions' = updateUnitDropdownUI(unitOptions, type, value)
         /\ Rerender([UNITS EXCEPT ![stateKey(type)] = value])
         /\ UNCHANGED tasks

\* setUnit(type, value)
setUnit(type, value) ==
    IF type \notin UnitTypes
    THEN UNCHANGED <<UNITS, unitOptions, page, uncaught, tasks>>
    ELSE /\ UNITS' = [UNITS EXCEPT ![stateKey(type)] = value]
         /\ unitOptions' = updateUnitDropdownUI(unitOptions, type, value)
         /\ Rerender([UNITS EXCEPT ![stateKey(type)] = value])
         /\ UNCHANGED tasks  \* no fetch

\* setAllToImperial()
setAllToImperial ==
    LET imperial == [TEMPERATURE |-> "fahrenheit", WIND |-> "mph", PRECIPITATION |-> "inches"]
    IN  /\ UNITS' = imperial
        /\ unitOptions' =
              updateUnitDropdownUI(
                  updateUnitDropdownUI(
                      updateUnitDropdownUI(unitOptions, "temp", "fahrenheit"),
                      "wind", "mph"),
                  "prec", "inches")
        /\ Rerender(imperial)
        /\ UNCHANGED tasks  \* no fetch

\* The document click listener for a click on a unit control: it empties the
\* suggestions unless the control lies inside .searchContainer
DocumentClick(inSearchContainer) ==
    suggestionsContainer' = IF inSearchContainer THEN suggestionsContainer ELSE <<>>

\* click on a .unitOption element
ClickUnitOption(type, value, inSearchContainer) ==
    /\ UserAction
    /\ <<type, value>> \in UnitOptionElements
    /\ setUnit(type, value)
    /\ DocumentClick(inSearchContainer)
    /\ UNCHANGED <<currentWeatherData, searchInput, timers, timeoutId, sinceInput,
                    burstRequests, loaded, geolocation, ipRequests, alerts>>

\* click on .switchImperialBtn
ClickImperial(inSearchContainer) ==
    /\ UserAction
    /\ setAllToImperial
    /\ DocumentClick(inSearchContainer)
    /\ UNCHANGED <<currentWeatherData, searchInput, timers, timeoutId, sinceInput,
                    burstRequests, loaded, geolocation, ipRequests, alerts>>

\* ------------------------------------------------------------------
\* Specification
\* ------------------------------------------------------------------
\* the automatic path: load, geolocation callbacks, and every response
AutoStep ==
    \/ initializeApp
    \/ handleLocationSuccess
    \/ GeolocationError
    \/ \E t \in Awaiting("ip") : \E r \in IPResponses : IPResponse(t, r)
    \/ \E t \in Awaiting("weather") : \E r \in ForecastResponses(t.latitude) : ForecastResponse(t, r)
    \/ \E t \in Awaiting("weather") : \E r \in GeocodingResponses : GeocodingResponse(t, r)

\* the search field, its timer and its requests
SearchStep ==
    \/ \E text \in TypedTexts : Input(text)
    \/ Tick
    \/ TimerFire
    \/ \E t \in Awaiting("suggest") : \E r \in SearchResponses : SuggestResponse(t, r)
    \/ \E i \in 1..2 : ClickSuggestion(i)
    \/ ClickSearch
    \/ PressEnter
    \/ \E t \in Awaiting("search") : \E r \in SearchResponses : SearchResponse(t, r)
    \/ ClickOutside

\* the unit controls
UnitStep ==
    \/ \E o \in UnitOptionElements : \E b \in BOOLEAN : ClickUnitOption(o[1], o[2], b)
    \/ \E b \in BOOLEAN : ClickImperial(b)

Next == AutoStep \/ SearchStep \/ UnitStep

\* every event the page can receive, in any order
Spec == Init /\ [][Next]_vars

\* the automatic path with the user at the unit controls only
SpecUnits == Init /\ [][AutoStep \/ UnitStep]_vars

\* the automatic path with the user at the search field only
SpecSearch == Init /\ [][AutoStep \/ SearchStep]_vars

\* A held snapshot of whole Celsius degrees, rendered under the default units
\* for the place the geolocation gave, with nothing in flight
InitRender ==
    \E c \in (0 - MaxBelowZero)..MaxAboveZero : \E hours \in {2, HourlyLimit + 1} :
        LET data == MkPayload("full", "geo", 10 * c, hours)
            blank == [currentWeatherContainer |-> Initial, currentUserLocation |-> MarkupText,
                      dateElement |-> MarkupText, currentTemp |-> Initial,
                      dailyForecastContainer |-> Initial, hourlyForecastContainer |-> Initial]
            p == renderWeather(blank, data, <<"G", ",", " ", "L">>, DefaultUnits).page
        IN  /\ UNITS = DefaultUnits
            /\ currentWeatherData = data
            /\ unitOptions = [temp |-> {"celsius"}, wind |-> {"kmh"}, prec |-> {"mm"}]
            /\ currentWeatherContainer = p.currentWeatherContainer
            /\ currentUserLocation = p.currentUserLocation
            /\ dateElement = p.dateElement
            /\ currentTemp = p.currentTemp
            /\ dailyForecastContainer = p.dailyForecastContainer
            /\ hourlyForecastContainer = p.hourlyForecastContainer
            /\ searchInput = <<>>
            /\ suggestionsContainer = <<>>
            /\ timers = {}
            /\ timeoutId = -1
            /\ loaded = TRUE
            /\ geolocation = "succeeded"
            /\ tasks = {}
            /\ userActions = 0
            /\ ipRequests = 0
            /\ sinceInput = DebounceDelay
            /\ burstRequests = 0
            /\ alerts = {}
            /\ uncaught = FALSE

\* unit changes on a held snapshot
SpecRender == InitRender /\ [][UnitStep]_vars

\* The page after the automatic path has ended with the snapshot `data`
\* rendered under the default units, with nothing in flight
HeldSnapshot(data) ==
    LET blank == [currentWeatherContainer |-> Initial, currentUserLocation |-> MarkupText,
                  dateElement |-> MarkupText, currentTemp |-> Initial,
                  dailyForecastContainer |-> Initial, hourlyForecastContainer |-> Initial]
        p == renderWeather(blank, data, <<"G", ",", " ", "L">>, DefaultUnits).page
    IN  /\ UNITS = DefaultUnits
        /\ currentWeatherData = data
        /\ unitOptions = [temp |-> {"celsius"}, wind |-> {"kmh"}, prec |-> {"mm"}]
        /\ currentWeatherContainer = p.currentWeatherContainer
        /\ currentUserLocation = p.currentUserLocation
        /\ dateElement = p.dateElement
        /\ currentTemp = p.currentTemp
        /\ dailyForecastContainer = p.dailyForecastContainer
        /\ hourlyForecastContainer = p.hourlyForecastContainer
        /\ searchInput = <<>>
        /\ suggestionsContainer = <<>>
        /\ timers = {}
        /\ timeoutId = -1
        /\ loaded = TRUE
        /\ geolocation = "succeeded"
        /\ tasks = {}
        /\ userActions = 0
        /\ ipRequests = 0
        /\ sinceInput = DebounceDelay
        /\ burstRequests = 0
        /\ alerts = {}
        /\ uncaught = FALSE

\* A held snapshot whose daily and hourly series carry the weather code `code`
InitIcons ==
    \E code \in (0 - 1)..MaxCode :
        HeldSnapshot([MkPayload("full", "geo", 200, 2) EXCEPT
                         !.daily.weather_code = <<code, 63>>,
                         !.hourly.weather_code = <<0, code>>])

\* renders of a snapshot for every weather code
SpecIcons == InitIcons /\ [][UnitStep]_vars

\* a text longer than the others the user types
LongerText == <<"a", "b", "c", "d">>
\* A search API that answers each query with that query's matches, or fails
MatchesFor(query) ==
    FailedResponses \cup
    {Resp(TRUE, SearchBody(IF query = <<"a", "b", "c">> THEN <<CityP>> ELSE <<CityQ>>))}

\* the page after a completed automatic path
InitSuggest == HeldSnapshot(MkPayload("full", "geo", 200, 2))

\* typing in the search field, the debounce timer, the suggestion requests,
\* the selection of a candidate and the Enter key
SuggestStep ==
    \/ \E text \in TypedTexts \cup {LongerText} : Input(text)
    \/ Tick
    \/ TimerFire
    \/ \E t \in Awaiting("suggest") : \E r \in MatchesFor(t.query) : SuggestResponse(t, r)
    \/ \E i \in 1..Len(suggestionsContainer) : ClickSuggestion(i)
    \/ PressEnter
    \/ \E t \in Awaiting("search") : \E r \in MatchesFor(t.query) : SearchResponse(t, r)
    \/ ClickOutside
    \/ \E t \in Awaiting("weather") : \E r \in ForecastResponses(t.latitude) : ForecastResponse(t, r)

\* the suggestion service on a page whose automatic path has ended
SpecSuggest == InitSuggest /\ [][SuggestStep]_vars

\* The names a reverse-geocoding body can carry in a field: none (null or
\* undefined), the empty string, or a name
CityNames == {Absent, <<>>, <<"R", "o", "m", "e">>}
LocalityNames == {Absent, <<>>, <<"S", "e", "c", "t", "o", "r", " ", "5">>}
CountryNames == {Absent, <<>>, <<"T", "e", "s", "t", "l", "a", "n", "d">>}
\* every answer to the reverse-geocoding request over those fields
AllGeocodingResponses ==
    FailedResponses \cup
    {Resp(TRUE, GeoBody(c, l, k)) : c \in CityNames, l \in LocalityNames, k \in CountryNames}

\* A fetch for the position the geolocation gave, suspended at
\* await reverseGeocode(latitude, longitude) with its payload stored
InitGeocoding ==
    \E c \in (0 - MaxBelowZero)..MaxAboveZero :
        LET data == MkPayload("full", "geo", 10 * c, 2)
        IN  /\ UNITS = DefaultUnits
            /\ currentWeatherData = data
            /\ unitOptions = [temp |-> {"celsius"}, wind |-> {"kmh"}, prec |-> {"mm"}]
            /\ currentWeatherContainer = Initial
            /\ currentUserLocation = MarkupText
            /\ dateElement = MarkupText
            /\ currentTemp = Initial
            /\ dailyForecastContainer = Initial
            /\ hourlyForecastContainer = Initial
            /\ searchInput = <<>>
            /\ suggestionsContainer = <<>>
            /\ timers = {}
            /\ timeoutId = -1
            /\ loaded = TRUE
            /\ geolocation = "succeeded"
            /\ tasks = {[WeatherTask(1, "geo", "geo", Absent, "geolocation")
                            EXCEPT !.pc = "geocoding", !.data = data]}
            /\ userActions = 0
            /\ ipRequests = 0
            /\ sinceInput = DebounceDelay
            /\ burstRequests = 0
            /\ alerts = {}
            /\ uncaught = FALSE

GeocodingStep ==
    \E t \in Awaiting("weather") : \E r \in AllGeocodingResponses : GeocodingResponse(t, r)

\* the naming of a fetched position, for every answer of the geocoding API
SpecGeocoding == InitGeocoding /\ [][GeocodingStep]_vars

\* every answer to the forecast request: a failure, or a body of any kind
\* with a short or a long hourly series
AllForecastResponses(place) ==
    IF place = Undefined
    THEN FailedResponses
    ELSE FailedResponses \cup
         {Resp(TRUE, MkPayload(k, place, TempOf(place), h)) :
             k \in PayloadKinds, h \in {2, HourlyLimit + 1}}

\* the automatic path alone: load, the geolocation callbacks and every
\* response, with no user at the page
StartupStep ==
    \/ initializeApp
    \/ handleLocationSuccess
    \/ GeolocationError
    \/ \E t \in Awaiting("ip") : \E r \in IPResponses : IPResponse(t, r)
    \/ \E t \in Awaiting("weather") : \E r \in AllForecastResponses(t.latitude) :
          ForecastResponse(t, r)
    \/ \E t \in Awaiting("weather") : \E r \in AllGeocodingResponses : GeocodingResponse(t, r)

\* the load event fires, the geolocation callback is called and every
\* request is answered
SpecStartup == Init /\ [][StartupStep]_vars /\ WF_vars(StartupStep)

\* The page while getCurrentPosition has not called back yet and the user
\* has picked the suggestion `item`: selectSuggestion has filled the field
\* and its fetchWeather awaits the forecast; nothing is rendered so far
InitOverlap ==
    \E item \in {CityP, CityQ} :
        LET city == FormatName(item.name, item.country)
        IN  /\ UNITS = DefaultUnits
            /\ currentWeatherData = Null
            /\ unitOptions = [temp |-> {"celsius"}, wind |-> {"kmh"}, prec |-> {"mm"}]
            /\ currentWeatherContainer = Initial
            /\ currentUserLocation = MarkupText
            /\ dateElement = MarkupText
            /\ currentTemp = Initial
            /\ dailyForecastContainer = Initial
            /\ hourlyForecastContainer = Initial
            /\ searchInput = city
            /\ suggestionsContainer = <<>>
            /\ timers = {}
            /\ timeoutId = -1
            /\ loaded = TRUE
            /\ geolocation = "pending"
            /\ tasks = {WeatherTask(1, item.latitude, item.longitude, city, "select")}
            /\ userActions = 0
            /\ ipRequests = 0
            /\ sinceInput = DebounceDelay
            /\ burstRequests = 1
            /\ alerts = {}
            /\ uncaught = FALSE

\* the geolocation callbacks and every response, with the user at the unit
\* controls
OverlapStep ==
    \/ handleLocationSuccess
    \/ GeolocationError
    \/ \E t \in Awaiting("ip") : \E r \in IPResponses : IPResponse(t, r)
    \/ \E t \in Awaiting("weather") : \E r \in ForecastResponses(t.latitude) : ForecastResponse(t, r)
    \/ \E t \in Awaiting("weather") : \E r \in GeocodingResponses : GeocodingResponse(t, r)
    \/ UnitStep

\* the fetch of a picked place overlapping the fetch of the automatic path
SpecOverlap == InitOverlap /\ [][OverlapStep]_vars

\* ------------------------------------------------------------------
\* Properties
\* ------------------------------------------------------------------
\* the requests sent in a step: every task suspended anew awaits one
NewRequests == tasks' \ tasks
\* the fetches that resume from their forecast request in a step
Resumed == {t \in tasks \ tasks' : t.kind = "weather" /\ t.pc = "forecast"}
SearchApiTasks == {t \in tasks : t.kind \in {"suggest", "search"}}

\* C1: once the page has loaded and geolocation has yielded no position (its
\* error callback fired, or it is unsupported), exactly one IP-lookup request
\* has been sent, never more than one is sent in any case, and no request to
\* the search API exists before the first user event.
C1_IPLookupOnce ==
    /\ (loaded /\ geolocation \in {"failed", "unsupported"}) => ipRequests = 1
    /\ geolocation \in {"supported", "pending", "succeeded"} => ipRequests = 0
    /\ userActions = 0 => SearchApiTasks = {}

C1_Witness ==
    /\ geolocation = "failed"
    /\ ipRequests = 1
    /\ userActions = 0
    /\ currentWeatherData # Null
    /\ tasks = {}

\* C2 (as claimed): when the IP lookup fails (rejected, non-success status,
\* unparsable body or a body without coordinates), the location notice is
\* shown and the task ends without a forecast request.
IPLookupFailed(r) ==
    \/ r = Reject
    \/ ~r.ok
    \/ r.body = Unparsable
    \/ r.body = ErrorBody
C2_IPFailureIsTerminal ==
    [][\A t \in Awaiting("ip") : \A r \in IPResponses :
          (IPLookupFailed(r) /\ t \notin tasks' /\ IPResponse(t, r)) =>
              /\ currentWeatherContainer' = LocationNoticeIP
              /\ tasks' = tasks \ {t}]_vars

\* C3: a click on a unit control sends no request (no task is suspended anew,
\* no IP lookup is counted), and with a complete snapshot held the page then
\* shows that snapshot's place and its current temperature in the new unit.
Nearest(num, den) ==
    CHOOSE n \in ((num \div den) - 1)..((num \div den) + 1) :
        2 * den * n - den <= 2 * num /\ 2 * num < 2 * den * n + den
\* round(C) and round(C * 9 / 5 + 32) of a temperature held in tenths
ClaimedTemp(c, unit) ==
    IF unit = "fahrenheit" THEN Nearest(9 * c + 1600, 50) ELSE Nearest(c, 10)
UnitClick ==
    \/ \E o \in UnitOptionElements : \E b \in BOOLEAN : ClickUnitOption(o[1], o[2], b)
    \/ \E b \in BOOLEAN : ClickImperial(b)
C3_UnitChangeNoRequest ==
    [][UnitClick =>
          /\ NewRequests = {}
          /\ tasks' = tasks
          /\ ipRequests' = ipRequests
          /\ currentWeatherData' = currentWeatherData
          /\ currentWeatherData.kind = "full" =>
                /\ currentWeatherContainer'.kind = "metrics"
                /\ currentWeatherContainer'.place = currentWeatherData.place
                /\ currentTemp'.value =
                      ClaimedTemp(currentWeatherData.current.temperature_2m,
                                  UNITS'.TEMPERATURE)
                /\ dailyForecastContainer'.kind = "cards"
                /\ hourlyForecastContainer'.kind = "cards"]_vars

C3_Witness ==
    /\ currentWeatherData.kind = "full"
    /\ UNITS.TEMPERATURE = "fahrenheit"
    /\ userActions > 0
    /\ currentTemp = [kind |-> "temp", value |-> 68]
    /\ \E t \in tasks : t.kind = "weather"

\* C4: with a snapshot of whole Celsius degrees held, after every unit change
\* each displayed temperature (current, feels-like, every daily minimum and
\* maximum, each of the first 24 hourly values and no further one) is
\* round(C * 9 / 5 + 32) under fahrenheit and round(C) under celsius, so that
\* switching there and back shows the first values again; the snapshot itself
\* is left as it was.
TemperaturesAsClaimed(data, unit, temp, weather, daily, hourly) ==
    /\ temp.value = ClaimedTemp(data.current.temperature_2m, unit)
    /\ weather.feelsLike = ClaimedTemp(data.current.apparent_temperature, unit)
    /\ Len(daily.cards) = Len(data.daily.time)
    /\ \A i \in 1..Len(data.daily.time) :
          /\ daily.cards[i].min = ClaimedTemp(data.daily.temperature_2m_min[i], unit)
          /\ daily.cards[i].max = ClaimedTemp(data.daily.temperature_2m_max[i], unit)
    /\ Len(hourly.cards) <= 24
    /\ \A i \in 1..Len(data.hourly.time) :
          i <= 24 =>
              /\ i <= Len(hourly.cards)
              /\ hourly.cards[i].temp = ClaimedTemp(data.hourly.temperature_2m[i], unit)
C4_TemperatureDisplay ==
    [][/\ currentWeatherData' = currentWeatherData
       /\ TemperaturesAsClaimed(currentWeatherData, UNITS'.TEMPERATURE, currentTemp',
                                 currentWeatherContainer', dailyForecastContainer',
                                 hourlyForecastContainer')]_vars

C4_Witness ==
    /\ currentWeatherData.kind = "full"
    /\ currentWeatherData.current.temperature_2m = 200
    /\ Len(currentWeatherData.hourly.time) > 24
    /\ UNITS.TEMPERATURE = "fahrenheit"
    /\ currentTemp = [kind |-> "temp", value |-> 68]
    /\ userActions > 0

\* C5: with no snapshot held, a click on a unit option stores the value in
\* its UNITS field and marks that option alone active in its group, a click
\* on the imperial switch does so for all three groups, and neither renders:
\* the weather, daily and hourly containers, the temperature, the date and
\* the location text stay as they were.
C5_UnitChangeWithoutSnapshot ==
    [][currentWeatherData = Null =>
          /\ \A o \in UnitOptionElements : \A b \in BOOLEAN :
                ClickUnitOption(o[1], o[2], b) =>
                    /\ UNITS'[stateKey(o[1])] = o[2]
                    /\ unitOptions'[o[1]] = {o[2]}
                    /\ UNCHANGED page
          /\ \A b \in BOOLEAN :
                ClickImperial(b) =>
                    /\ UNITS' = [TEMPERATURE |-> "fahrenheit", WIND |-> "mph",
                                  PRECIPITATION |-> "inches"]
                    /\ unitOptions' = [temp |-> {"fahrenheit"}, wind |-> {"mph"},
                                        prec |-> {"inches"}]
                    /\ UNCHANGED page]_vars

C5_Witness ==
    /\ currentWeatherData = Null
    /\ UNITS.TEMPERATURE = "fahrenheit"
    /\ unitOptions.temp = {"fahrenheit"}
    /\ currentWeatherContainer = LocationNoticeIP
    /\ currentTemp = Initial

\* C6 (as claimed): when a forecast response ends the fetch with the notice
\* 'Failed to load weather data', the held snapshot is what it was before,
\* and on a non-success status no render function has touched the page.
FetchFailedOn(t) ==
    /\ currentWeatherContainer' = WeatherNotice
    /\ \A u \in tasks' : u.id # t.id
C6_FailureKeepsSnapshot ==
    [][\A t \in Awaiting("weather") : \A r \in ForecastResponses(t.latitude) :
          (FetchFailedOn(t) /\ ForecastResponse(t, r)) =>
              /\ currentWeatherData' = currentWeatherData
              /\ (r # Reject /\ ~r.ok) =>
                    UNCHANGED <<currentUserLocation, dateElement, currentTemp,
                                dailyForecastContainer, hourlyForecastContainer>>]_vars

\* C7 (as claimed): when the page shows the weather of a manually chosen
\* place and the last outstanding request, one of the automatic resolution,
\* completes successfully, the page and the held snapshot are still those of
\* the manually chosen place.
ManualPlaces == {"c1", "c2"}
ShowsManual(weather, data) ==
    /\ weather.kind = "metrics"
    /\ weather.place \in ManualPlaces
    /\ data.kind = "full"
    /\ data.place = weather.place
AutomaticOrigins == {"geolocation", "ip"}
C7_ManualSupersedesAutomatic ==
    [][\A t \in Awaiting("weather") :
          (/\ t.origin \in AutomaticOrigins
           /\ ShowsManual(currentWeatherContainer, currentWeatherData)
           /\ tasks = {t}
           /\ tasks' = {}
           /\ currentWeatherContainer'.kind = "metrics")
          => ShowsManual(currentWeatherContainer', currentWeatherData')]_vars

\* C8 (as claimed): a fetch that ends was given a name and made no
\* reverse-geocoding call, or was given none and made exactly one.
Ends(t) == t \in tasks /\ \A u \in tasks' : u.id # t.id
C8_OneCallIffNameAbsent ==
    [][\A t \in Awaiting("weather") :
          Ends(t) => (t.pc = "geocoding" <=> t.cityName = Absent)]_vars

\* C8 (amended): a fetch makes a reverse-geocoding call only on resuming
\* from a forecast response, and then exactly when the response succeeded
\* (ok status, parsable body) and the name it was given is absent or empty;
\* after that call it renders and ends, so no fetch makes a second call and
\* a fetch given a non-empty name, or whose forecast request failed, makes none.
ForecastSucceeded(r) == r # Reject /\ r.ok /\ r.body # Unparsable
GeocodingCalls == {u \in NewRequests : u.kind = "weather" /\ u.pc = "geocoding"}
C8_GeocodingCalls ==
    [][/\ \A t \in Resumed : \A r \in ForecastResponses(t.latitude) :
             ForecastResponse(t, r) =>
                 IF ForecastSucceeded(r) /\ (t.cityName = Absent \/ t.cityName = <<>>)
                 THEN /\ GeocodingCalls = {[t EXCEPT !.pc = "geocoding", !.data = r.body]}
                      /\ tasks' = (tasks \ {t}) \cup GeocodingCalls
                 ELSE /\ GeocodingCalls = {}
                      /\ Ends(t)
       /\ \A t \in Awaiting("weather") :
             t.pc = "geocoding" => (t \in tasks' \/ (Ends(t) /\ GeocodingCalls = {}))
       /\ GeocodingCalls # {} =>
             \E t \in Awaiting("weather") : t.pc = "forecast" /\ t \notin tasks'
                                              /\ \E u \in GeocodingCalls : u.id = t.id]_vars

C8_Witness ==
    /\ \E t \in tasks : t.kind = "weather" /\ t.pc = "geocoding" /\ t.cityName = Absent
    /\ \E t \in tasks : t.kind = "weather" /\ t.pc = "forecast" /\ t.origin = "search"

\* C9: when the reverse-geocoding call of a fetch with a complete payload
\* fails (rejected, non-success status, unparsable body or a body without a
\* name), the page shows that payload's weather under 'Unknown Location' and
\* not the failure notice; and the payload had been stored as the held
\* snapshot when the forecast response arrived.
GeocodingFailed(r) ==
    \/ r = Reject
    \/ ~r.ok
    \/ r.body = Unparsable
    \/ r.body = ErrorBody
C9_NamingFailureNotFatal ==
    [][/\ \A t \in Awaiting("weather") \ tasks' : \A r \in GeocodingResponses :
             (GeocodingFailed(r) /\ t.data.kind = "full" /\ GeocodingResponse(t, r)) =>
                 /\ currentUserLocation' = UnknownLocation
                 /\ currentWeatherContainer'.kind = "metrics"
                 /\ currentWeatherContainer'.place = t.data.place
                 /\ currentTemp'.kind = "temp"
                 /\ dailyForecastContainer'.kind = "cards"
                 /\ hourlyForecastContainer'.kind = "cards"
       /\ \A t \in Awaiting("weather") \ tasks' : \A r \in ForecastResponses(t.latitude) :
             (ForecastSucceeded(r) /\ ForecastResponse(t, r)) =>
                 currentWeatherData' = r.body]_vars

C9_Witness ==
    /\ currentUserLocation = UnknownLocation
    /\ currentWeatherContainer.kind = "metrics"
    /\ currentWeatherContainer.place = "geo"
    /\ currentWeatherData.kind = "full"
    /\ tasks = {}

\* C10: a suggestion request is sent only when a timeout of the debounce
\* expires, at least 300 ms after the last input event, with a trimmed field
\* text of at least 3 characters, and it is one request, for that text, the
\* only one since that input event; an expiring timeout sends it whenever
\* the trimmed text has 3 characters or more and sends nothing otherwise;
\* and an input event leaves exactly one timeout pending.
SuggestRequests == {u \in NewRequests : u.kind = "suggest"}
TimeoutExpires == 0 \in timers /\ timers' = timers \ {0} /\ userActions' = userActions
C10_DebouncedSuggestions ==
    [][/\ SuggestRequests # {} =>
             /\ TimeoutExpires
             /\ sinceInput >= DebounceDelay
             /\ Len(Trim(searchInput)) >= 3
             /\ Cardinality(SuggestRequests) = 1
             /\ \A u \in SuggestRequests : u.query = Trim(searchInput)
             /\ burstRequests' = 1
       /\ (TimeoutExpires /\ Len(Trim(searchInput)) >= 3) => Cardinality(SuggestRequests) = 1
       /\ (TimeoutExpires /\ Len(Trim(searchInput)) < 3) => NewRequests = {}
       /\ (\E text \in TypedTexts : Input(text)) =>
             /\ timers' = {DebounceDelay}
             /\ NewRequests = {}]_vars

C10_Witness ==
    /\ userActions = 2
    /\ burstRequests = 1
    /\ sinceInput = DebounceDelay
    /\ searchInput = <<"a", "b", "c">>
    /\ timers = {}
    /\ \E t \in tasks : t.kind = "suggest" /\ t.query = <<"a", "b", "c">>
    /\ Cardinality({t \in tasks : t.kind = "suggest"}) = 1

\* C11: a click on a shown candidate (or Enter while candidates are shown,
\* which clicks the first) sets the search field to that candidate's
\* '<name>, <country>', empties the list, and sends one request: the forecast
\* request of a fetch with the candidate's latitude, longitude and formatted
\* name; and a fetch started by a selection never awaits reverse geocoding.
Candidates == {CityP, CityQ}
Selects(i) == ClickSuggestion(i) \/ (i = 1 /\ PressEnter)
C11_SelectionFetchesByName ==
    [][/\ \A i \in 1..Len(suggestionsContainer) :
             Selects(i) =>
                 \E c \in Candidates :
                     /\ suggestionsContainer[i].textContent = FormatName(c.name, c.country)
                     /\ suggestionsContainer[i].lat = c.latitude
                     /\ searchInput' = FormatName(c.name, c.country)
                     /\ suggestionsContainer' = <<>>
                     /\ NewRequests = {WeatherTask(FreeId, c.latitude, c.longitude,
                                                   FormatName(c.name, c.country), "select")}
                     /\ tasks \subseteq tasks'
       /\ \A t \in tasks' :
             (t.kind = "weather" /\ t.origin = "select") => t.pc = "forecast"]_vars

C11_Witness ==
    /\ searchInput = <<"P", ",", " ", "F">>
    /\ suggestionsContainer = <<>>
    /\ \E t \in tasks :
          /\ t.kind = "weather" /\ t.origin = "select" /\ t.pc = "forecast"
          /\ t.latitude = "c1" /\ t.cityName = <<"P", ",", " ", "F">>
    /\ Cardinality({t \in tasks : t.kind = "weather" /\ t.origin = "select"}) = 1
    /\ userActions = 2

\* C12 (as claimed): when handleSearch resumes with a response, zero matches
\* give the 'not found' notice, a rejected request or a non-success status
\* gives the 'Failed to search for location' notice, and in both cases no
\* fetch is started and the held snapshot stays; and a forecast response
\* never raises a notice of the search.
SearchFailedNotice == "Failed to search for location"
QueryError(r) == r = Reject \/ ~r.ok
ZeroMatches(r) == r # Reject /\ r.ok /\ r.body # Unparsable /\ r.body # ErrorBody
                  /\ r.body.results = <<>>
C12_SearchNotices ==
    [][/\ \A t \in Awaiting("search") : \A r \in SearchResponses :
             SearchResponse(t, r) =>
                 /\ ZeroMatches(r) => alerts' = alerts \cup {"not found"}
                 /\ QueryError(r) => alerts' = alerts \cup {SearchFailedNotice}
                 /\ (ZeroMatches(r) \/ QueryError(r)) =>
                       /\ tasks' = tasks \ {t}
                       /\ currentWeatherData' = currentWeatherData
       /\ \A t \in Awaiting("weather") : \A r \in ForecastResponses(t.latitude) :
             ForecastResponse(t, r) => alerts' = alerts]_vars

\* C13 (as claimed): a click on the search button or Enter in the field,
\* whether or not candidates are shown, sends exactly one search request with
\* count=1 for the trimmed text of the field when that text is not empty, and
\* no request when it is empty.
SearchRequestFor(text) ==
    [id |-> FreeId, kind |-> "search", query |-> text, count |-> SearchCount]
SubmitQueries ==
    IF Trim(searchInput) = <<>>
    THEN NewRequests = {}
    ELSE NewRequests = {SearchRequestFor(Trim(searchInput))}
C13_SubmitQueries ==
    [][(ClickSearch \/ PressEnter) => SubmitQueries]_vars

\* C13 (amended): a click on the search button, and Enter while no candidate
\* is shown, send exactly one search request with count=1 for the trimmed
\* text of the field, and none when that text is empty; Enter while
\* candidates are shown sends no search request whatever the field holds: it
\* selects the first candidate. When the search response has a match, the
\* fetch started is for the coordinates and formatted name of its first
\* result, and the request is the only one the submit sent.
C13_SubmitWithoutCandidates ==
    [][/\ ClickSearch => SubmitQueries
       /\ (PressEnter /\ suggestionsContainer = <<>>) => SubmitQueries
       /\ (PressEnter /\ suggestionsContainer # <<>>) =>
             /\ \A u \in NewRequests : u.kind = "weather" /\ u.origin = "select"
             /\ \E u \in NewRequests : u.latitude = suggestionsContainer[1].lat
       /\ \A t \in Awaiting("search") : \A r \in SearchResponses :
             (SearchResponse(t, r) /\ ~QueryError(r) /\ ~ZeroMatches(r)
                 /\ r.body # Unparsable) =>
                 LET first == r.body.results[1]
                 IN  NewRequests =
                        {WeatherTask(t.id, first.latitude, first.longitude,
                                     FormatName(first.name, first.country), "search")}]_vars

C13_Witness ==
    /\ searchInput = <<" ", "a", "b">>
    /\ suggestionsContainer = <<>>
    /\ \E t \in tasks : t.kind = "search" /\ t.query = <<"a", "b">> /\ t.count = 1
    /\ Cardinality({t \in tasks : t.kind = "search"}) = 1
    /\ userActions = 2

\* C14: the candidate list is empty after the debounced handler has run with
\* a trimmed text shorter than 3 characters, after a suggestion response
\* without results (missing or empty) or a failed suggestion request, and
\* after a click outside the search container.
NoResults(r) ==
    r # Reject /\ r.body # Unparsable /\ (r.body = ErrorBody \/ r.body.results = <<>>)
SuggestFailed(r) == r = Reject \/ ~r.ok \/ r.body = Unparsable
C15_NoUncaughtException == uncaught = FALSE

\* C16: a location-failure notice appears only in a step in which
\* getLocationFromIP resumes with a failed IP lookup while geolocation has
\* failed or is unsupported; wherever it is displayed, geolocation has failed
\* or is unsupported, the one IP lookup has been sent and is no longer
\* pending, and no fetch came of it; the geolocation error callback alone
\* leaves the weather container as it was.
LocationNotices == {LocationNoticeIP, LocationNoticeGeo}
Present(name) == name # Absent /\ name # <<>>
ClaimedName(city, locality, countryName) ==
    LET first == IF Present(city) THEN city
                 ELSE IF Present(locality) THEN locality ELSE UnknownLocation
    IN  IF Present(countryName) THEN first \o <<",", " ">> \o countryName ELSE first
ClaimedNameOf(r) ==
    IF GeocodingFailed(r)
    THEN UnknownLocation
    ELSE ClaimedName(r.body.city, r.body.locality, r.body.countryName)
C17_DisplayName ==
    [][\A t \in Awaiting("weather") : \A r \in AllGeocodingResponses :
          GeocodingResponse(t, r) =>
              /\ reverseGeocode(r) = ClaimedNameOf(r)
              /\ currentUserLocation' = ClaimedNameOf(r)
              /\ currentUserLocation' # <<>>]_vars

C17_Witness ==
    /\ currentUserLocation =
          <<"S", "e", "c", "t", "o", "r", " ", "5", ",", " ",
            "T", "e", "s", "t", "l", "a", "n", "d">>
    /\ currentWeatherContainer.kind = "metrics"
    /\ tasks = {}

\* C18: every daily and hourly card shows the icon class the fixed table
\* gives the card's weather code: 0 clear ("sunny"), 1 and 2 partly cloudy
\* ("partCloud"), 3 cloudy, 45 and 48 foggy, 51 53 55 56 57 rainy,
\* 61 63 65 66 67 80 81 82 stormy, 71 73 75 77 85 86 snowy, 95 96 99
\* thunderstorm ("windy"), and every other code the default "partCloud".
ClaimedIcon(code) ==
    CASE code = 0 -> "sunny"
      [] code \in {1, 2} -> "partCloud"
      [] code = 3 -> "cloudy"
      [] code \in {45, 48} -> "foggy"
      [] code \in {51, 53, 55, 56, 57} -> "rainy"
      [] code \in {61, 63, 65, 66, 67, 80, 81, 82} -> "stormy"
      [] code \in {71, 73, 75, 77, 85, 86} -> "snowy"
      [] code \in {95, 96, 99} -> "windy"
      [] OTHER -> "partCloud"
C18_IconTable ==
    /\ dailyForecastContainer.kind = "cards"
    /\ hourlyForecastContainer.kind = "cards"
    /\ Len(dailyForecastContainer.cards) = Len(currentWeatherData.daily.weather_code)
    /\ Len(hourlyForecastContainer.cards) = Len(currentWeatherData.hourly.weather_code)
    /\ \A i \in 1..Len(currentWeatherData.daily.weather_code) :
          dailyForecastContainer.cards[i].icon =
              ClaimedIcon(currentWeatherData.daily.weather_code[i])
    /\ \A i \in 1..Len(currentWeatherData.hourly.weather_code) :
          hourlyForecastContainer.cards[i].icon =
              ClaimedIcon(currentWeatherData.hourly.weather_code[i])

C18_Witness ==
    /\ currentWeatherData.daily.weather_code[1] = 100
    /\ dailyForecastContainer.cards[1].icon = "partCloud"
    /\ dailyForecastContainer.cards[2].icon = "stormy"
    /\ hourlyForecastContainer.cards[1].icon = "sunny"
    /\ UNITS.WIND = "mph"
    /\ userActions > 0

\* C19: a suggestion request leaves only by its own response (none is
\* cancelled), and its response is applied on arrival whatever the field
\* holds and whatever other requests are pending: the list becomes that
\* response's candidates (none when it failed or has no results) and the
\* other requests stay pending. So the candidates of an older request can be
\* shown after the response of a newer one.
ShownFor(r) ==
    IF SuggestFailed(r) \/ NoResults(r) THEN <<>> ELSE renderSuggestions(r.body.results)
C19_LastResponseWins ==
    [][\A t \in Awaiting("suggest") :
          t \notin tasks' =>
              /\ \E r \in MatchesFor(t.query) : SuggestResponse(t, r)
              /\ \A r \in MatchesFor(t.query) :
                    SuggestResponse(t, r) =>
                        /\ suggestionsContainer' = ShownFor(r)
                        /\ tasks' = tasks \ {t}]_vars

\* the field holds the newer query, whose request has been answered, and the
\* list shows the match of the older query
C19_Witness ==
    /\ Trim(searchInput) = LongerText
    /\ burstRequests = 1
    /\ timers = {}
    /\ Awaiting("suggest") = {}
    /\ suggestionsContainer = renderSuggestions(<<CityP>>)

\* C20: with the load event, the geolocation callback and every response
\* eventually arriving and no user action, the page eventually has nothing
\* in flight and shows either rendered weather or a notice (location failure
\* or weather-load failure).
Visible ==
    \/ currentWeatherContainer \in LocationNotices \cup {WeatherNotice}
    \/ /\ currentWeatherContainer.kind = "metrics"
       /\ currentWeatherData # Null
Settled == loaded /\ tasks = {} /\ geolocation \notin {"supported", "pending"}
C20_StartupEndsVisibly == <>(Settled /\ Visible)

C20_Witness ==
    /\ Settled
    /\ geolocation = "unsupported"
    /\ currentWeatherContainer = WeatherNotice
    /\ currentWeatherData = Null
    /\ ipRequests = 1
    /\ userActions = 0

\* C21 (as claimed): in every state with no request in flight in which
\* weather is displayed, the page is the rendering of the held snapshot
\* under the current UNITS and the displayed name, whatever the order in
\* which overlapping weather fetches were answered.
Quiescent == tasks = {}
WeatherDisplayed == currentWeatherContainer.kind = "metrics"
C21_DisplayIsSnapshot ==
    (Quiescent /\ WeatherDisplayed) =>
        /\ currentWeatherData # Null
        /\ Page = renderWeather(Page, currentWeatherData, currentUserLocation, UNITS).page

\* C22 (as claimed): in every state in which weather is displayed, the
\* displayed name is a non-empty name resolved for the fetch of the
\* displayed place: the name the search API gave for a picked place, the
\* IP lookup's city or a reverse-geocoded name for a located place.
GeocodedNames == {reverseGeocode(r) : r \in GeocodingResponses}
NamesOf(place) ==
    CASE place = "c1" -> {FormatName(CityP.name, CityP.country)}
      [] place = "c2" -> {FormatName(CityQ.name, CityQ.country)}
      [] place = "ip" -> {<<"I">>} \cup GeocodedNames
      [] place = "geo" -> GeocodedNames
      [] OTHER -> {}
C22_NameOfDisplayedPlace ==
    WeatherDisplayed =>
        /\ currentUserLocation # <<>>
        /\ currentUserLocation \in NamesOf(currentWeatherContainer.place)


====
